---- MODULE Spec2Model ----
(***************************************************************************)
(* Model of the e-mail prefab (src/src/main.py): send_email,               *)
(* send_bulk_email and send_email_with_template.                           *)
(*                                                                         *)
(* The program keeps no state of its own between calls.  What persists is  *)
(* the process environment (the SMTP_* variables), which the tests set     *)
(* with monkeypatch.setenv / delenv.  A call reads the environment, its    *)
(* arguments, the attachments directory and talks to the SMTP transport;   *)
(* the directory listing and the behaviour of the transport are inputs of  *)
(* the call.  Every call is one action; it records what the call did       *)
(* (single sends made, transport steps invoked, files read) and what it    *)
(* returned, and Return hands the result to the caller.                    *)
(*                                                                         *)
(* Python strings that the code splits, trims, lower-cases or parses are   *)
(* sequences of one-character strings.  Python values are tagged records:  *)
(* t = "str" (v the characters), "none" (None), "obj" (a truthy object     *)
(* that is not a str, such as 42), "list" (v the items, text chunks),       *)
(* "dict" (v the <<key, value>> pairs in insertion order) and "dictlist"   *)
(* (a list of dicts, v the dicts as functions from their keys).            *)
(***************************************************************************)
EXTENDS Integers, Sequences, FiniteSets, TLC

VARIABLES env, pc, op, args, result, sends, rendered

vars == <<env, pc, op, args, result, sends, rendered>>

(***************************************************************************)
(* Bounds                                                                  *)
(***************************************************************************)
MaxFiles == 2        \* entries in the attachments directory
MaxRecipients == 2   \* length of the recipients list of send_bulk_email
MaxLen == 4          \* characters in an address argument of the split check

(***************************************************************************)
(* Python values                                                           *)
(***************************************************************************)
None == [t |-> "none", v |-> <<>>]
Obj == [t |-> "obj", v |-> <<>>]
Str(s) == [t |-> "str", v |-> s]

IsStr(x) == x.t = "str"

\* bool(x): None and "" are falsy, a non-empty str and the object are truthy
Truthy(x) ==
    \/ x.t = "obj"
    \/ x.t \in {"str", "list", "dict", "dictlist"} /\ Len(x.v) > 0

\* a character no codec can encode (a lone surrogate such as U+DC80)
Surrogate == "U+DC80"

(***************************************************************************)
(* String functions                                                        *)
(***************************************************************************)
IsSpace(c) == c \in {" ", "\t", "\n"}

RECURSIVE LStrip(_)
LStrip(s) == IF Len(s) > 0 /\ IsSpace(Head(s)) THEN LStrip(Tail(s)) ELSE s

RECURSIVE RStrip(_)
RStrip(s) == IF Len(s) > 0 /\ IsSpace(s[Len(s)])
               THEN RStrip(SubSeq(s, 1, Len(s) - 1))
               ELSE s

\* str.strip()
Strip(s) == RStrip(LStrip(s))

\* str.split(sep): k separators give k+1 segments, empty ones kept
RECURSIVE Split(_, _)
Split(s, sep) ==
    IF \A i \in 1..Len(s) : s[i] # sep
      THEN <<s>>
      ELSE LET i == CHOOSE k \in 1..Len(s) :
                        s[k] = sep /\ \A j \in 1..(k - 1) : s[j] # sep
           IN  <<SubSeq(s, 1, i - 1)>> \o Split(SubSeq(s, i + 1, Len(s)), sep)

LowerChar(c) ==
    CASE c = "T" -> "t"
      [] c = "R" -> "r"
      [] c = "U" -> "u"
      [] c = "E" -> "e"
      [] c = "F" -> "f"
      [] c = "A" -> "a"
      [] c = "L" -> "l"
      [] c = "S" -> "s"
      [] c = "Y" -> "y"
      [] OTHER -> c

\* str.lower()
Lower(s) == [i \in 1..Len(s) |-> LowerChar(s[i])]

Digits == {"0", "1", "2", "3", "4", "5", "6", "7", "8", "9"}

\* mutant: the port is not parsed, any non-empty string passes
IntParsesAnything(s) == Len(s) > 0

\* int(s) returns a number (TRUE) or raises ValueError (FALSE): surrounding
\* whitespace is dropped, one sign is allowed, then digits, with single
\* underscores allowed between digits
IntParses(s) ==
    LET t == Strip(s)
        d == IF Len(t) > 0 /\ Head(t) \in {"+", "-"} THEN Tail(t) ELSE t
    IN  /\ Len(d) > 0
        /\ \A i \in 1..Len(d) :
              \/ d[i] \in Digits
              \/ /\ d[i] = "_"
                 /\ i > 1 /\ i < Len(d)
                 /\ d[i - 1] \in Digits /\ d[i + 1] \in Digits

\* body.encode('utf-8') inside MIMEText succeeds
Encodable(s) == \A i \in 1..Len(s) : s[i] # Surrogate

(***************************************************************************)
(* Environment                                                             *)
(***************************************************************************)
RequiredKeys == <<"SMTP_HOST", "SMTP_PORT", "SMTP_USERNAME", "SMTP_PASSWORD">>

ConfigKeys == {"SMTP_HOST", "SMTP_PORT", "SMTP_USERNAME", "SMTP_PASSWORD",
               "SMTP_USE_TLS"}

\* the values the environment variables range over
EnvStrings(k) ==
    CASE k = "SMTP_HOST" -> {<<>>, <<"h">>}
      [] k = "SMTP_PORT" -> {<<"2", "5">>, <<"2", "a">>}
      [] k = "SMTP_USERNAME" -> {<<"u">>}
      [] k = "SMTP_PASSWORD" -> {<<"p">>}
      [] k = "SMTP_USE_TLS" -> {<<"T", "R", "u", "e">>,
                                <<"f", "a", "l", "s", "e">>}

\* os.environ.get(k)
EnvGet(e, k) == e[k]

\* os.environ.get(k, default)
EnvGetDefault(e, k, default) == IF e[k] = None THEN Str(default) ELSE e[k]

\* mutant: the comparison with "true" is case-sensitive
UseTlsCaseSensitive(e) ==
    EnvGetDefault(e, "SMTP_USE_TLS", <<"t", "r", "u", "e">>).v
        = <<"t", "r", "u", "e">>

\* smtp_use_tls
UseTls(e) ==
    Lower(EnvGetDefault(e, "SMTP_USE_TLS", <<"t", "r", "u", "e">>).v)
        = <<"t", "r", "u", "e">>

\* mutant: SMTP_PASSWORD is not tested
MissingConfigsNoPassword(e) ==
    SelectSeq(<<"SMTP_HOST", "SMTP_PORT", "SMTP_USERNAME">>,
              LAMBDA k : ~Truthy(EnvGet(e, k)))

\* missing_configs: the required keys whose value is falsy, in the order
\* the code tests them
MissingConfigs(e) ==
    SelectSeq(RequiredKeys, LAMBDA k : ~Truthy(EnvGet(e, k)))

(***************************************************************************)
(* The world a single send meets: the attachments directory as the scan    *)
(* finds it, and the behaviour of the SMTP transport                       *)
(***************************************************************************)
\* directory entries: a readable file, a file whose read fails, a directory
EntryPool ==
    {[name |-> "f1", isFile |-> TRUE, readable |-> TRUE],
     [name |-> "f2", isFile |-> TRUE, readable |-> FALSE],
     [name |-> "d1", isFile |-> FALSE, readable |-> FALSE]}

NoRepeat(s) == \A i, j \in 1..Len(s) : i # j => s[i] # s[j]

\* ATTACHMENTS_DIR: absent, or a listing in the order glob returns it
Listings ==
    {[exists |-> FALSE, entries |-> <<>>]} \cup
    {[exists |-> TRUE, entries |-> l] :
        l \in {s \in UNION {[1..n -> EntryPool] : n \in 0..MaxFiles} :
                  NoRepeat(s)}}

\* the calls send_email makes on smtplib, in program order
TransportSteps(use_tls) ==
    IF use_tls
      THEN <<"connect", "starttls", "login", "send_message", "quit">>
      ELSE <<"connect", "login", "send_message", "quit">>

StepNames == {"connect", "starttls", "login", "send_message", "quit"}

\* what a transport call does: it returns ("ok") or raises
\* SMTPAuthenticationError ("auth"), another SMTPException ("smtp"), or an
\* exception that is not an SMTPException ("other": OSError, ssl errors, ...)
Raises == {"auth", "smtp", "other"}

\* a transport behaviour gives the outcome of each call; a call after the
\* first raising one is never made, so one raising call per behaviour is
\* all there is to choose
TransportBehaviours ==
    {[s \in StepNames |-> "ok"]} \cup
    {[s \in StepNames |-> IF s = f THEN k ELSE "ok"] :
        f \in StepNames, k \in Raises}

Worlds == [dir : Listings, tb : TransportBehaviours]

QuietWorld == [dir |-> [exists |-> FALSE, entries |-> <<>>],
               tb |-> [s \in StepNames |-> "ok"]]

(***************************************************************************)
(* send_email                                                              *)
(***************************************************************************)
Failure(code, text) ==
    [success |-> FALSE, error |-> text, error_code |-> code]

\* what one execution of send_email did: the value it returned, the reads
\* of attachment files it made and the transport calls it made, in order
Done(a, r, rd, tr) == [args |-> a, result |-> r, reads |-> rd, transport |-> tr]

\* mutant: empty entries are filtered out of the list
AddressesFiltersEmpty(x) ==
    IF Truthy(x)
      THEN LET parts == Split(x.v, ",")
           IN  SelectSeq([i \in 1..Len(parts) |-> Strip(parts[i])],
                         LAMBDA p : Len(p) > 0)
      ELSE <<>>

\* [addr.strip() for addr in x.split(',')] if x else []
Addresses(x) ==
    IF Truthy(x)
      THEN LET parts == Split(x.v, ",")
           IN  [i \in 1..Len(parts) |-> Strip(parts[i])]
      ELSE <<>>

\* mutant: a failing read is skipped and the loop goes on
AttachmentReadsGoesOn(dir) ==
    LET files == IF dir.exists
                   THEN SelectSeq(dir.entries, LAMBDA f : f.isFile)
                   ELSE <<>>
    IN  [i \in 1..Len(files) |->
            [name |-> files[i].name, ok |-> files[i].readable]]

\* the loop over attachment_files: the regular files of the listing are
\* opened one after the other; the first failing read ends the loop
AttachmentReads(dir) ==
    LET files == IF dir.exists
                   THEN SelectSeq(dir.entries, LAMBDA f : f.isFile)
                   ELSE <<>>
        bad == {i \in 1..Len(files) : ~files[i].readable}
        n == IF bad = {} THEN Len(files)
             ELSE CHOOSE i \in bad : \A j \in bad : i <= j
    IN  [i \in 1..n |-> [name |-> files[i].name, ok |-> files[i].readable]]

\* mutant: a call that raises is made a second time
TransportCallsRetries(use_tls, all_recipients, attached, tb) ==
    LET steps == TransportSteps(use_tls)
        bad == {i \in 1..Len(steps) : tb[steps[i]] # "ok"}
        n == IF bad = {} THEN Len(steps)
             ELSE CHOOSE i \in bad : \A j \in bad : i <= j
        calls == [i \in 1..n |->
                    [step |-> steps[i],
                     out |-> tb[steps[i]],
                     mode |-> IF steps[i] # "connect" THEN "-"
                              ELSE IF use_tls THEN "SMTP" ELSE "SMTP_SSL",
                     to_addrs |-> IF steps[i] = "send_message"
                                    THEN all_recipients ELSE <<>>,
                     attachments |-> IF steps[i] = "send_message"
                                       THEN attached ELSE <<>>]]
    IN  IF bad = {} THEN calls ELSE Append(calls, calls[n])

\* server = SMTP(...) / SMTP_SSL(...); starttls; login; send_message; quit:
\* the calls made up to and including the first one that raises
TransportCalls(use_tls, all_recipients, attached, tb) ==
    LET steps == TransportSteps(use_tls)
        bad == {i \in 1..Len(steps) : tb[steps[i]] # "ok"}
        n == IF bad = {} THEN Len(steps)
             ELSE CHOOSE i \in bad : \A j \in bad : i <= j
    IN  [i \in 1..n |->
            [step |-> steps[i],
             out |-> tb[steps[i]],
             mode |-> IF steps[i] # "connect" THEN "-"
                      ELSE IF use_tls THEN "SMTP" ELSE "SMTP_SSL",
             to_addrs |-> IF steps[i] = "send_message"
                            THEN all_recipients ELSE <<>>,
             attachments |-> IF steps[i] = "send_message"
                               THEN attached ELSE <<>>]]

\* mutant: the transport block has no except Exception clause, the outer
\* one catches what is no SMTPException
TransportErrorCodeOuterCatch(kind) ==
    CASE kind = "auth" -> "SMTP_AUTH_ERROR"
      [] kind = "smtp" -> "SMTP_ERROR"
      [] kind = "other" -> "UNEXPECTED_ERROR"

\* mutant: no except clause for SMTPAuthenticationError and SMTPException
TransportErrorCodeFolded(kind) == "SMTP_CONNECTION_ERROR"

\* the except clauses of the transport block, in the order they are tried
TransportErrorCode(kind) ==
    CASE kind = "auth" -> "SMTP_AUTH_ERROR"
      [] kind = "smtp" -> "SMTP_ERROR"
      [] kind = "other" -> "SMTP_CONNECTION_ERROR"

TransportErrorText(kind) ==
    CASE kind = "auth" -> <<"SMTP authentication failed">>
      [] kind = "smtp" -> <<"SMTP error">>
      [] kind = "other" -> <<"connecting to SMTP server failed">>

\* mutant: body_type is not checked
ValidBodyTypeUnchecked(body_type) == TRUE

\* body_type in ["plain", "html"]
ValidBodyType(body_type) == body_type \in {"plain", "html"}

\* mutant: the blind copies are left out of the delivery
AllRecipientsNoBcc(to_addresses, cc_addresses, bcc_addresses) ==
    to_addresses \o cc_addresses

\* all_recipients = to_addresses + cc_addresses + bcc_addresses
AllRecipients(to_addresses, cc_addresses, bcc_addresses) ==
    to_addresses \o cc_addresses \o bcc_addresses

\* the value returned when a required setting is missing
MissingConfigFailure(missing_configs) ==
    [success |-> FALSE,
     error |-> <<"missing SMTP config">> \o missing_configs,
     error_code |-> "MISSING_SMTP_CONFIG",
     missing_configs |-> missing_configs]

\* the value returned after server.quit()
Sent(to_addresses, cc_addresses, bcc_addresses) ==
    [success |-> TRUE,
     message |-> <<"mail sent">>,
     recipients |-> to_addresses,
     cc |-> IF Len(cc_addresses) > 0
              THEN [some |-> TRUE, list |-> cc_addresses]
              ELSE [some |-> FALSE, list |-> <<>>],
     bcc_count |-> IF Len(bcc_addresses) > 0 THEN Len(bcc_addresses) ELSE 0]

\* the transport try block with its except clauses, for the calls it made
Deliver(a, reads, calls, to_addresses, cc_addresses, bcc_addresses) ==
    IF calls[Len(calls)].out # "ok"
      THEN Done(a, Failure(TransportErrorCode(calls[Len(calls)].out),
                           TransportErrorText(calls[Len(calls)].out)),
                reads, calls)
      ELSE Done(a, Sent(to_addresses, cc_addresses, bcc_addresses), reads, calls)

\* mutant: the connection is opened before the port is parsed
AttachConnectsFirst(e, a, tb, reads, to_addresses, cc_addresses, bcc_addresses) ==
    IF Len(reads) > 0 /\ ~reads[Len(reads)].ok
      THEN Done(a, Failure("ATTACHMENT_ERROR",
                           <<"attachment failed", reads[Len(reads)].name>>),
                reads, <<>>)
    ELSE IF ~IntParses(EnvGet(e, "SMTP_PORT").v)
      THEN Done(a, Failure("INVALID_PORT", <<"SMTP_PORT must be a number">>),
                reads,
                <<[step |-> "connect", out |-> "ok", mode |-> "SMTP",
                   to_addrs |-> <<>>, attachments |-> <<>>]>>)
    ELSE Deliver(a, reads,
                 TransportCalls(UseTls(e),
                                AllRecipients(to_addresses, cc_addresses,
                                              bcc_addresses),
                                [i \in 1..Len(reads) |-> reads[i].name], tb),
                 to_addresses, cc_addresses, bcc_addresses)

\* send_email from the attachment loop on, for the reads the loop made
Attach(e, a, tb, reads, to_addresses, cc_addresses, bcc_addresses) ==
    IF Len(reads) > 0 /\ ~reads[Len(reads)].ok
      THEN Done(a, Failure("ATTACHMENT_ERROR",
                           <<"attachment failed", reads[Len(reads)].name>>),
                reads, <<>>)
    ELSE IF ~IntParses(EnvGet(e, "SMTP_PORT").v)
      THEN Done(a, Failure("INVALID_PORT", <<"SMTP_PORT must be a number">>),
                reads, <<>>)
    ELSE Deliver(a, reads,
                 TransportCalls(UseTls(e),
                                AllRecipients(to_addresses, cc_addresses,
                                              bcc_addresses),
                                [i \in 1..Len(reads) |-> reads[i].name], tb),
                 to_addresses, cc_addresses, bcc_addresses)

\* mutant: body is checked before subject
SendEmailBodyChecksBodyFirst(e, a, w) ==
    IF Len(MissingConfigs(e)) > 0
      THEN Done(a, MissingConfigFailure(MissingConfigs(e)), <<>>, <<>>)
    ELSE IF ~Truthy(a.to) \/ ~IsStr(a.to)
      THEN Done(a, Failure("INVALID_RECIPIENT", <<"to must be a non-empty string">>),
                <<>>, <<>>)
    ELSE IF ~Truthy(a.body) \/ ~IsStr(a.body)
      THEN Done(a, Failure("INVALID_BODY", <<"body must be a non-empty string">>),
                <<>>, <<>>)
    ELSE IF ~Truthy(a.subject) \/ ~IsStr(a.subject)
      THEN Done(a, Failure("INVALID_SUBJECT", <<"subject must be a non-empty string">>),
                <<>>, <<>>)
    ELSE IF ~ValidBodyType(a.body_type)
      THEN Done(a, Failure("INVALID_BODY_TYPE", <<"body_type must be plain or html">>),
                <<>>, <<>>)
    ELSE IF \/ Truthy(a.cc) /\ ~IsStr(a.cc)
            \/ Truthy(a.bcc) /\ ~IsStr(a.bcc)
            \/ ~Encodable(a.body.v)
      THEN Done(a, [raised |-> "Exception"], <<>>, <<>>)
    ELSE Attach(e, a, w.tb, AttachmentReads(w.dir),
                Addresses(a.to), Addresses(a.cc), Addresses(a.bcc))

\* the body of the outer try block of send_email
SendEmailBody(e, a, w) ==
    IF Len(MissingConfigs(e)) > 0
      THEN Done(a, MissingConfigFailure(MissingConfigs(e)), <<>>, <<>>)
    ELSE IF ~Truthy(a.to) \/ ~IsStr(a.to)
      THEN Done(a, Failure("INVALID_RECIPIENT", <<"to must be a non-empty string">>),
                <<>>, <<>>)
    ELSE IF ~Truthy(a.subject) \/ ~IsStr(a.subject)
      THEN Done(a, Failure("INVALID_SUBJECT", <<"subject must be a non-empty string">>),
                <<>>, <<>>)
    ELSE IF ~Truthy(a.body) \/ ~IsStr(a.body)
      THEN Done(a, Failure("INVALID_BODY", <<"body must be a non-empty string">>),
                <<>>, <<>>)
    ELSE IF ~ValidBodyType(a.body_type)
      THEN Done(a, Failure("INVALID_BODY_TYPE", <<"body_type must be plain or html">>),
                <<>>, <<>>)
    \* cc.split / bcc.split on a value that is no str, or a body that cannot
    \* be encoded, raises inside the outer try
    ELSE IF \/ Truthy(a.cc) /\ ~IsStr(a.cc)
            \/ Truthy(a.bcc) /\ ~IsStr(a.bcc)
            \/ ~Encodable(a.body.v)
      THEN Done(a, [raised |-> "Exception"], <<>>, <<>>)
    ELSE Attach(e, a, w.tb, AttachmentReads(w.dir),
                Addresses(a.to), Addresses(a.cc), Addresses(a.bcc))

\* a raised exception that is no SMTP_* or validation case leaves the body
\* of the try block as [raised |-> its class]
HasRaised(r) == "raised" \in DOMAIN r

\* mutant: the outer except clause is missing
CatchUnexpectedMissing(r) == r

\* except Exception as e: return {... "error_code": "UNEXPECTED_ERROR"}
CatchUnexpected(r) ==
    IF HasRaised(r) THEN Failure("UNEXPECTED_ERROR", <<r.raised>>) ELSE r

\* except Exception around the body of a try block: what the call returns
Caught(d) == [d EXCEPT !.result = CatchUnexpected(d.result)]

SendEmail(e, a, w) == Caught(SendEmailBody(e, a, w))

(***************************************************************************)
(* send_bulk_email                                                         *)
(***************************************************************************)
\* result.get(k): the value, or None when the key is missing
DictGet(r, k) ==
    IF k \in DOMAIN r THEN [some |-> TRUE, val |-> r[k]]
    ELSE [some |-> FALSE, val |-> <<>>]

\* the recipients argument: a list, or a value that is no list (a tuple,
\* None); items are the elements in order
IsList(x) == x.kind = "list"

\* the keyword arguments of the send_email call in the loop
BulkSendArgs(a, i) ==
    [to |-> a.recipients.items[i], subject |-> a.subject, body |-> a.body,
     cc |-> None, bcc |-> None, body_type |-> a.body_type]

\* mutant: the detail line of a failed send is put first
BulkStepReorders(acc, d, recipient) ==
    IF HasRaised(d.result)
      THEN [acc EXCEPT !.result = d.result, !.sends = Append(@, d)]
      ELSE [result |-> acc.result,
            sends |-> Append(acc.sends, d),
            succeeded |-> IF d.result.success THEN acc.succeeded + 1
                          ELSE acc.succeeded,
            failed |-> IF d.result.success THEN acc.failed
                       ELSE acc.failed + 1,
            results |-> IF d.result.success
                          THEN Append(acc.results,
                                      [recipient |-> recipient,
                                       success |-> d.result.success,
                                       error |-> DictGet(d.result, "error"),
                                       error_code |-> DictGet(d.result, "error_code")])
                          ELSE <<[recipient |-> recipient,
                                  success |-> d.result.success,
                                  error |-> DictGet(d.result, "error"),
                                  error_code |-> DictGet(d.result, "error_code")]>>
                               \o acc.results]

\* one pass of the loop body for a send d to recipient: count it and
\* append its detail line; an exception leaving send_email leaves the loop
BulkStep(acc, d, recipient) ==
    IF HasRaised(d.result)
      THEN [acc EXCEPT !.result = d.result, !.sends = Append(@, d)]
      ELSE [result |-> acc.result,
            sends |-> Append(acc.sends, d),
            succeeded |-> IF d.result.success THEN acc.succeeded + 1
                          ELSE acc.succeeded,
            failed |-> IF d.result.success THEN acc.failed
                       ELSE acc.failed + 1,
            results |-> Append(acc.results,
                               [recipient |-> recipient,
                                success |-> d.result.success,
                                error |-> DictGet(d.result, "error"),
                                error_code |-> DictGet(d.result, "error_code")])]

\* mutant: the loop ends at the first failed send
RECURSIVE BulkLoopBreaks(_, _, _, _, _)
BulkLoopBreaks(e, a, ws, i, acc) ==
    IF i > Len(a.recipients.items) \/ HasRaised(acc.result) \/ acc.failed > 0
      THEN acc
      ELSE BulkLoopBreaks(e, a, ws, i + 1,
                          BulkStep(acc, SendEmail(e, BulkSendArgs(a, i), ws[i]),
                                   a.recipients.items[i]))

\* the for loop from recipient i on: one send_email per recipient, in list
\* order
RECURSIVE BulkLoop(_, _, _, _, _)
BulkLoop(e, a, ws, i, acc) ==
    IF i > Len(a.recipients.items) \/ HasRaised(acc.result)
      THEN acc
      ELSE BulkLoop(e, a, ws, i + 1,
                    BulkStep(acc, SendEmail(e, BulkSendArgs(a, i), ws[i]),
                             a.recipients.items[i]))

\* lines 301-307: the aggregate built from the counters after the loop
BulkResult(a, acc) ==
    IF HasRaised(acc.result)
      THEN [result |-> acc.result, sends |-> acc.sends]
      ELSE [result |-> [success |-> acc.failed = 0,
                        total |-> Len(a.recipients.items),
                        succeeded |-> acc.succeeded,
                        failed |-> acc.failed,
                        results |-> acc.results],
            sends |-> acc.sends]

\* mutant: the body argument is not checked before the loop
SendBulkEmailBodyNoBodyCheck(e, a, ws) ==
    IF Len(a.recipients.items) = 0 \/ ~IsList(a.recipients)
      THEN [result |-> Failure("INVALID_RECIPIENTS",
                               <<"recipients must be a non-empty list">>),
            sends |-> <<>>]
    ELSE IF ~Truthy(a.subject) \/ ~IsStr(a.subject)
      THEN [result |-> Failure("INVALID_SUBJECT",
                               <<"subject must be a non-empty string">>),
            sends |-> <<>>]
    ELSE BulkResult(a, BulkLoop(e, a, ws, 1,
                                [result |-> [pending |-> TRUE], sends |-> <<>>,
                                 succeeded |-> 0, failed |-> 0,
                                 results |-> <<>>]))

\* the body of the try block of send_bulk_email
SendBulkEmailBody(e, a, ws) ==
    IF Len(a.recipients.items) = 0 \/ ~IsList(a.recipients)
      THEN [result |-> Failure("INVALID_RECIPIENTS",
                               <<"recipients must be a non-empty list">>),
            sends |-> <<>>]
    ELSE IF ~Truthy(a.subject) \/ ~IsStr(a.subject)
      THEN [result |-> Failure("INVALID_SUBJECT",
                               <<"subject must be a non-empty string">>),
            sends |-> <<>>]
    ELSE IF ~Truthy(a.body) \/ ~IsStr(a.body)
      THEN [result |-> Failure("INVALID_BODY",
                               <<"body must be a non-empty string">>),
            sends |-> <<>>]
    ELSE BulkResult(a, BulkLoop(e, a, ws, 1,
                                [result |-> [pending |-> TRUE], sends |-> <<>>,
                                 succeeded |-> 0, failed |-> 0,
                                 results |-> <<>>]))

SendBulkEmail(e, a, ws) == Caught(SendBulkEmailBody(e, a, ws))

(***************************************************************************)
(* send_email_with_template                                                *)
(***************************************************************************)
Lit(text) == [kind |-> "lit", name |-> text]
Ph(name) == [kind |-> "ph", name |-> name]

\* EMAIL_TEMPLATES: each layout as its literal markup and its replacement
\* fields, in the order they stand in the source
EMAIL_TEMPLATES ==
    [notification |->
        <<Lit("<notification>"), Ph("title"), Ph("heading"), Ph("message"),
          Ph("button_html"), Ph("extra_content"), Ph("footer"),
          Lit("</notification>")>>,
     welcome |->
        <<Lit("<welcome>"), Ph("title"), Ph("message"), Ph("features_html"),
          Ph("button_html"), Ph("extra_content"), Ph("footer"),
          Lit("</welcome>")>>,
     alert |->
        <<Lit("<alert>"), Ph("title"), Ph("alert_title"), Ph("message"),
          Ph("details_html"), Ph("button_html"), Ph("extra_content"),
          Ph("footer"), Lit("</alert>")>>,
     report |->
        <<Lit("<report>"), Ph("title"), Ph("summary_title"), Ph("message"),
          Ph("stats_html"), Ph("button_html"), Ph("extra_content"),
          Ph("footer"), Lit("</report>")>>]

RECURSIVE Concat(_)
Concat(ss) == IF Len(ss) = 0 THEN <<>> ELSE Head(ss) \o Concat(Tail(ss))

\* str(x), as the f-strings and str.format render a value
ToText(x) ==
    CASE x.t = "str" -> x.v
      [] x.t = "none" -> <<"None">>
      [] x.t = "obj" -> <<"42">>
      [] x.t = "list" -> <<"[">> \o x.v \o <<"]">>
      [] x.t = "dict" -> <<"{">> \o Concat(x.v) \o <<"}">>
      [] x.t = "dictlist" -> <<"[{..}]">>

\* template_data.get(k): None when the key is missing
DataGet(d, k) == IF k \in DOMAIN d THEN d[k] ELSE None

\* template_data.get(k, default), rendered
DataText(d, k, default) == IF k \in DOMAIN d THEN ToText(d[k]) ELSE default

\* button_html
ButtonHtml(d) ==
    IF Truthy(DataGet(d, "button_text")) /\ Truthy(DataGet(d, "button_url"))
      THEN <<"<a href=">> \o ToText(d["button_url"]) \o <<" class=button>">>
           \o ToText(d["button_text"]) \o <<"</a>">>
      ELSE <<>>

\* mutant: the for loop over features ends after the first element
FeaturesHtmlFirstOnly(template_type, d) ==
    IF template_type = "welcome" /\ Truthy(DataGet(d, "features"))
      THEN IF d["features"].t = "obj"
             THEN [raised |-> "TypeError"]
             ELSE [html |-> <<"<div class=features>",
                              "<div class=feature-item>", d["features"].v[1],
                              "</div>", "</div>">>]
      ELSE [html |-> <<>>]

\* features_html: one feature-item per element the for loop yields; a
\* value that cannot be iterated raises TypeError
FeaturesHtml(template_type, d) ==
    IF template_type = "welcome" /\ Truthy(DataGet(d, "features"))
      THEN LET features == d["features"]
           IN  CASE features.t = "obj" -> [raised |-> "TypeError"]
                 [] features.t \in {"str", "list"} ->
                      [html |-> <<"<div class=features>">> \o
                          Concat([i \in 1..Len(features.v) |->
                                    <<"<div class=feature-item>", features.v[i],
                                      "</div>">>])
                          \o <<"</div>">>]
                 [] features.t = "dict" ->
                      [html |-> <<"<div class=features>">> \o
                          Concat([i \in 1..Len(features.v) |->
                                    <<"<div class=feature-item>",
                                      features.v[i][1], "</div>">>])
                          \o <<"</div>">>]
                 [] features.t = "dictlist" ->
                      [html |-> <<"<div class=features>">> \o
                          Concat([i \in 1..Len(features.v) |->
                                    <<"<div class=feature-item>", "{..}",
                                      "</div>">>])
                          \o <<"</div>">>]
      ELSE [html |-> <<>>]

\* details_html: one line per item of details.items(); a value without
\* items() raises AttributeError
DetailsHtml(template_type, d) ==
    IF template_type = "alert" /\ Truthy(DataGet(d, "details"))
      THEN LET details == d["details"]
           IN  IF details.t # "dict"
                 THEN [raised |-> "AttributeError"]
                 ELSE [html |-> <<"<div class=details>">> \o
                          Concat([i \in 1..Len(details.v) |->
                                    <<"<div><strong>", details.v[i][1],
                                      ":</strong>", details.v[i][2], "</div>">>])
                          \o <<"</div>">>]
      ELSE [html |-> <<>>]

\* stats_html: one stat-card per element, through stat.get("value", "N/A")
\* and stat.get("label", ""); an element without get raises AttributeError,
\* a value that cannot be iterated TypeError
StatsHtml(template_type, d) ==
    IF template_type = "report" /\ Truthy(DataGet(d, "stats"))
      THEN LET stats == d["stats"]
           IN  CASE stats.t = "obj" -> [raised |-> "TypeError"]
                 [] stats.t \in {"str", "list", "dict"} ->
                      [raised |-> "AttributeError"]
                 [] stats.t = "dictlist" ->
                      [html |-> <<"<div class=stats>">> \o
                          Concat([i \in 1..Len(stats.v) |->
                            <<"<div class=stat-card>",
                              IF "value" \in DOMAIN stats.v[i]
                                THEN stats.v[i]["value"] ELSE "N/A",
                              IF "label" \in DOMAIN stats.v[i]
                                THEN stats.v[i]["label"] ELSE "",
                              "</div>">>])
                          \o <<"</div>">>]
      ELSE [html |-> <<>>]

\* mutant: template_vars has no summary_title
TemplateVarsNoSummaryTitle(d, button, features, details, stats) ==
    [title |-> DataText(d, "title", <<>>),
     heading |-> DataText(d, "heading", <<>>),
     message |-> DataText(d, "message", <<>>),
     alert_title |-> DataText(d, "alert_title", <<"important notice">>),
     extra_content |-> DataText(d, "extra_content", <<>>),
     footer |-> DataText(d, "footer", <<"sent automatically, do not reply">>),
     button_html |-> button,
     features_html |-> features,
     details_html |-> details,
     stats_html |-> stats]

\* template_vars, once every fragment is built
TemplateVars(d, button, features, details, stats) ==
    [title |-> DataText(d, "title", <<>>),
     heading |-> DataText(d, "heading", <<>>),
     message |-> DataText(d, "message", <<>>),
     alert_title |-> DataText(d, "alert_title", <<"important notice">>),
     summary_title |-> DataText(d, "summary_title", <<"summary">>),
     extra_content |-> DataText(d, "extra_content", <<>>),
     footer |-> DataText(d, "footer", <<"sent automatically, do not reply">>),
     button_html |-> button,
     features_html |-> features,
     details_html |-> details,
     stats_html |-> stats]

\* layout.format(**template_vars): a replacement field that is no key of
\* template_vars raises KeyError
Format(layout, tvars) ==
    LET unknown == {i \in 1..Len(layout) :
                      layout[i].kind = "ph" /\ layout[i].name \notin DOMAIN tvars}
    IN  IF unknown # {}
          THEN [raised |-> "KeyError",
                key |-> layout[CHOOSE i \in unknown : \A j \in unknown : i <= j].name]
          ELSE [html |-> Concat([i \in 1..Len(layout) |->
                            IF layout[i].kind = "ph"
                              THEN tvars[layout[i].name]
                              ELSE <<layout[i].name>>])]

\* lines 644-698: the substitution variables, the fragments and the
\* rendering; [html |-> the body] or [raised |-> the exception]
Render(template_type, d) ==
    LET features == FeaturesHtml(template_type, d)
        details == DetailsHtml(template_type, d)
        stats == StatsHtml(template_type, d)
    IN  IF HasRaised(features) THEN features
        ELSE IF HasRaised(details) THEN details
        ELSE IF HasRaised(stats) THEN stats
        ELSE Format(EMAIL_TEMPLATES[template_type],
                    TemplateVars(d, ButtonHtml(d), features.html,
                                 details.html, stats.html))

\* the keyword arguments of the send_email call of the templated send
TemplateSendArgs(a, html_body) ==
    [to |-> a.to, subject |-> a.subject, body |-> Str(html_body),
     cc |-> a.cc, bcc |-> a.bcc, body_type |-> "html"]

\* mutant: template_type is added to the result of a failed send as well
TemplatedAlways(a, r, d) ==
    [result |-> IF HasRaised(d.result) THEN d.result
                ELSE [template_type |-> a.template_type] @@ d.result,
     sends |-> <<d>>,
     rendered |-> <<r.html>>]

\* lines 711-714: template_type is added to the result of a successful send
Templated(a, r, d) ==
    [result |-> IF HasRaised(d.result) THEN d.result
                ELSE IF d.result.success
                  THEN [template_type |-> a.template_type] @@ d.result
                  ELSE d.result,
     sends |-> <<d>>,
     rendered |-> <<r.html>>]

\* lines 698-714: the send of the rendered body r, unless rendering raised
SendRendered(e, a, w, r) ==
    IF HasRaised(r)
      THEN [result |-> r, sends |-> <<>>, rendered |-> <<>>]
      ELSE Templated(a, r, SendEmail(e, TemplateSendArgs(a, r.html), w))

\* mutant: template_data is not checked before the rendering
SendEmailWithTemplateBodyNoDataCheck(e, a, w) ==
    IF ~Truthy(a.to) \/ ~IsStr(a.to)
      THEN [result |-> Failure("INVALID_RECIPIENT",
                               <<"to must be a non-empty string">>),
            sends |-> <<>>, rendered |-> <<>>]
    ELSE IF ~Truthy(a.subject) \/ ~IsStr(a.subject)
      THEN [result |-> Failure("INVALID_SUBJECT",
                               <<"subject must be a non-empty string">>),
            sends |-> <<>>, rendered |-> <<>>]
    ELSE IF a.template_type \notin DOMAIN EMAIL_TEMPLATES
      THEN [result |-> Failure("INVALID_TEMPLATE_TYPE",
                               <<"unsupported template type", a.template_type,
                                 "notification", "welcome", "alert", "report">>),
            sends |-> <<>>, rendered |-> <<>>]
    ELSE SendRendered(e, a, w, Render(a.template_type, a.template_data.d))

\* the body of the try block of send_email_with_template
SendEmailWithTemplateBody(e, a, w) ==
    IF ~Truthy(a.to) \/ ~IsStr(a.to)
      THEN [result |-> Failure("INVALID_RECIPIENT",
                               <<"to must be a non-empty string">>),
            sends |-> <<>>, rendered |-> <<>>]
    ELSE IF ~Truthy(a.subject) \/ ~IsStr(a.subject)
      THEN [result |-> Failure("INVALID_SUBJECT",
                               <<"subject must be a non-empty string">>),
            sends |-> <<>>, rendered |-> <<>>]
    ELSE IF a.template_type \notin DOMAIN EMAIL_TEMPLATES
      THEN [result |-> Failure("INVALID_TEMPLATE_TYPE",
                               <<"unsupported template type", a.template_type,
                                 "notification", "welcome", "alert", "report">>),
            sends |-> <<>>, rendered |-> <<>>]
    ELSE IF ~Truthy(a.template_data) \/ a.template_data.t # "dict"
      THEN [result |-> Failure("INVALID_TEMPLATE_DATA",
                               <<"template_data must be a non-empty dict">>),
            sends |-> <<>>, rendered |-> <<>>]
    ELSE SendRendered(e, a, w, Render(a.template_type, a.template_data.d))

\* except KeyError as e: ... MISSING_TEMPLATE_FIELD; except Exception: ...
CatchTemplate(r) ==
    IF HasRaised(r) /\ r.raised = "KeyError"
      THEN Failure("MISSING_TEMPLATE_FIELD", <<"missing template field", r.key>>)
      ELSE CatchUnexpected(r)

\* the try of send_email_with_template around what its body did
CaughtTemplate(d) == [d EXCEPT !.result = CatchTemplate(d.result)]

SendEmailWithTemplate(e, a, w) ==
    CaughtTemplate(SendEmailWithTemplateBody(e, a, w))

(***************************************************************************)
(* Inputs                                                                  *)
(***************************************************************************)
ToValues == {Str(<<>>), Obj, Str(<<"a", ",", " ", "b", ",">>)}
SubjectValues == {Str(<<>>), Str(<<"s">>)}
BodyValues == {Str(<<>>), Str(<<"h", "i">>), Str(<<Surrogate>>)}
CcValues == {None, Str(<<>>), Str(<<"c", " ", ",", "d">>)}
BccValues == {None, Obj, Str(<<"e", ",", "e">>)}
BodyTypes == {"plain", "html", "markdown"}

\* The parts of the world a send does not look at are not varied: a send
\* that returns before the directory scan meets the quiet world, one that
\* returns before the transport block meets the all-ok transport, and a
\* call that raises is only chosen among the calls the send makes.
Scans(d) ==
    /\ ~HasRaised(d.result)
    /\ d.result.success \/ d.result.error_code = "INVALID_PORT"

Observed(use_tls, d, w) ==
    /\ d.transport = <<>> => w.tb = QuietWorld.tb
    /\ w.tb["starttls"] # "ok" => use_tls

WorldsFor(e, a) ==
    IF ~Scans(SendEmail(e, a, QuietWorld))
      THEN {QuietWorld}
      ELSE {w \in Worlds :
              Observed(UseTls(e),
                       SendEmail(e, a, [w EXCEPT !.tb = QuietWorld.tb]), w)}

\* the worlds the sends of a bulk or templated call are drawn from
SmallWorlds ==
    {QuietWorld,
     [QuietWorld EXCEPT !.tb["connect"] = "other"],
     [QuietWorld EXCEPT !.tb["login"] = "auth"],
     [QuietWorld EXCEPT !.tb["send_message"] = "smtp"],
     [QuietWorld EXCEPT !.tb["quit"] = "smtp"],
     [QuietWorld EXCEPT !.dir = [exists |-> TRUE,
                                 entries |-> <<[name |-> "f2", isFile |-> TRUE,
                                                readable |-> FALSE]>>]]}

RecipientItems == {Str(<<"a">>), Str(<<"b", ",">>), Obj}

RecipientLists ==
    {[kind |-> "list", items |-> l] :
        l \in UNION {[1..n -> RecipientItems] : n \in 0..MaxRecipients}}
    \cup {[kind |-> "tuple", items |-> <<Str(<<"a">>)>>]}

BulkTexts == {Str(<<>>), Str(<<"s">>)}
BulkBodyTypes == {"plain", "markdown"}

TemplateTypes == {"notification", "welcome", "alert", "report", "fancy"}

Dict(keys, d) == [t |-> "dict", v |-> keys, d |-> d]

\* template_data: None, a list, the empty dict, and dicts over the
\* documented fields
TemplateDatas ==
    {[t |-> "none", v |-> <<>>, d |-> <<>>],
     [t |-> "list", v |-> <<"x">>, d |-> <<>>],
     Dict(<<>>, <<>>),
     Dict(<<"title">>, [title |-> Str(<<"T">>)]),
     Dict(<<"button_text", "button_url">>,
          [button_text |-> Str(<<"Go">>), button_url |-> Str(<<"http://u">>)]),
     Dict(<<"features">>,
          [features |-> [t |-> "list", v |-> <<"f1", "f2">>]]),
     Dict(<<"features">>, [features |-> Obj]),
     Dict(<<"title", "features">>,
          [title |-> Str(<<"T">>), features |-> [t |-> "list", v |-> <<>>]]),
     Dict(<<"button_text">>, [button_text |-> Str(<<"Go">>)]),
     Dict(<<"details">>,
          [details |-> [t |-> "dict", v |-> <<<<"k1", "v1">>, <<"k2", "v2">>>>]]),
     Dict(<<"stats">>,
          [stats |-> [t |-> "dictlist",
                      v |-> <<[label |-> "L", value |-> "7"], [label |-> "M"]>>]])}

TemplateTos == {Str(<<>>), Str(<<"a">>)}
TemplateSubjects == {Str(<<>>), Str(<<"s">>)}
\* cc and bcc of a templated call, as <<cc, bcc>>
TemplateCopies == {<<None, None>>, <<Str(<<"c">>), Str(<<"e">>)>>}

(***************************************************************************)
(* Actions                                                                 *)
(***************************************************************************)
NoArgs == [none |-> TRUE]
NoResult == [none |-> TRUE]

Init ==
    /\ env = [k \in ConfigKeys |-> None]
    /\ pc = "idle"
    /\ op = "none"
    /\ args = NoArgs
    /\ result = NoResult
    /\ sends = <<>>
    /\ rendered = <<>>

\* monkeypatch.setenv(k, v)
SetEnv ==
    /\ pc = "idle"
    /\ \E k \in ConfigKeys : \E v \in EnvStrings(k) :
          /\ env[k] # Str(v)
          /\ env' = [env EXCEPT ![k] = Str(v)]
    /\ UNCHANGED <<pc, op, args, result, sends, rendered>>

\* monkeypatch.delenv(k)
DelEnv ==
    /\ pc = "idle"
    /\ \E k \in ConfigKeys :
          /\ env[k] # None
          /\ env' = [env EXCEPT ![k] = None]
    /\ UNCHANGED <<pc, op, args, result, sends, rendered>>

\* the call returns: what the caller and the outside world can see of it
Returns(name, a, r, ss, html) ==
    /\ op' = name
    /\ args' = a
    /\ result' = r
    /\ sends' = ss
    /\ rendered' = html
    /\ pc' = "returned"
    /\ UNCHANGED env

SendEmailArgs(to, subject, body, cc, bcc, body_type) ==
    [to |-> to, subject |-> subject, body |-> body,
     cc |-> cc, bcc |-> bcc, body_type |-> body_type]

SendEmailReturns(d) == Returns("send_email", d.args, d.result, <<d>>, <<>>)

\* result = send_email(to, subject, body, cc, bcc, body_type)
CallSendEmail ==
    /\ pc = "idle"
    /\ \E to \in ToValues, subject \in SubjectValues, body \in BodyValues,
          cc \in CcValues, bcc \in BccValues, body_type \in BodyTypes :
          \E w \in WorldsFor(env, SendEmailArgs(to, subject, body, cc, bcc,
                                                body_type)) :
             SendEmailReturns(SendEmail(env,
                                        SendEmailArgs(to, subject, body, cc,
                                                      bcc, body_type), w))

BulkArgs(recipients, subject, body, body_type) ==
    [recipients |-> recipients, subject |-> subject,
     body |-> body, body_type |-> body_type]

BulkReturns(a, d) == Returns("send_bulk_email", a, d.result, d.sends, <<>>)

BulkWorlds(e, a) ==
    {ws \in [1..Len(a.recipients.items) -> SmallWorlds] :
        \A i \in 1..Len(a.recipients.items) :
            ws[i] \in WorldsFor(e, BulkSendArgs(a, i))}

SendBulkEmailCall(e, a) ==
    \E ws \in BulkWorlds(e, a) : BulkReturns(a, SendBulkEmail(e, a, ws))

\* result = send_bulk_email(recipients, subject, body, body_type)
CallSendBulkEmail ==
    /\ pc = "idle"
    /\ \E recipients \in RecipientLists, subject \in BulkTexts,
          body \in BulkTexts, body_type \in BulkBodyTypes :
          SendBulkEmailCall(env, BulkArgs(recipients, subject, body, body_type))

TemplateArgs(to, subject, template_type, template_data, copies) ==
    [to |-> to, subject |-> subject, template_type |-> template_type,
     template_data |-> template_data, cc |-> copies[1], bcc |-> copies[2]]

TemplateReturns(a, w, d) ==
    /\ Len(d.sends) = 0 => w = QuietWorld
    /\ Returns("send_email_with_template", a, d.result, d.sends, d.rendered)

SendEmailWithTemplateCall(e, a) ==
    \E w \in SmallWorlds :
        /\ w \in WorldsFor(e, TemplateSendArgs(a, <<"<html>">>))
        /\ TemplateReturns(a, w, SendEmailWithTemplate(e, a, w))

\* result = send_email_with_template(to, subject, template_type,
\*                                   template_data, cc, bcc)
CallSendEmailWithTemplate ==
    /\ pc = "idle"
    /\ \E to \in TemplateTos, subject \in TemplateSubjects,
          template_type \in TemplateTypes, template_data \in TemplateDatas,
          copies \in TemplateCopies :
          SendEmailWithTemplateCall(env, TemplateArgs(to, subject, template_type,
                                                     template_data, copies))

\* the caller has the result; the next call starts from a clean record
Return ==
    /\ pc = "returned"
    /\ pc' = "idle"
    /\ op' = "none"
    /\ args' = NoArgs
    /\ result' = NoResult
    /\ sends' = <<>>
    /\ rendered' = <<>>
    /\ UNCHANGED env

Next ==
    \/ SetEnv
    \/ DelEnv
    \/ CallSendEmail
    \/ CallSendBulkEmail
    \/ CallSendEmailWithTemplate
    \/ Return

Spec == Init /\ [][Next]_vars

(***************************************************************************)
(* The address lists on their own: every argument up to MaxLen characters  *)
(***************************************************************************)
AddressChars == {"a", ",", " ", "\t"}

AddressArguments ==
    {None} \cup
    {Str(v) : v \in UNION {[1..n -> AddressChars] : n \in 0..MaxLen}}

AddressesInit ==
    /\ env = [k \in ConfigKeys |-> None]
    /\ pc = "idle"
    /\ op = "none"
    /\ args \in {[x |-> v] : v \in AddressArguments}
    /\ result = NoResult
    /\ sends = <<>>
    /\ rendered = <<>>

\* [addr.strip() for addr in x.split(',')] if x else [], for the argument
ApplyAddresses ==
    /\ pc = "idle"
    /\ pc' = "returned"
    /\ op' = "addresses"
    /\ result' = [list |-> Addresses(args.x)]
    /\ UNCHANGED <<env, args, sends, rendered>>

AddressesNext == ApplyAddresses

AddressesSpec == AddressesInit /\ [][AddressesNext]_vars

(***************************************************************************)
(* Properties                                                              *)
(***************************************************************************)
Returned == pc = "returned"

NonEmptyStr(x) == x.t = "str" /\ Len(x.v) > 0

\* C1 as stated: every call of the three operations returns a result
\* instead of raising, and every result whose success is false carries
\* both an error and an error_code field.
C1_FailureAlwaysHasErrorFields ==
    Returned =>
        /\ ~HasRaised(result)
        /\ "success" \in DOMAIN result
        /\ (~result.success => {"error", "error_code"} \subseteq DOMAIN result)

\* C1 amended: every call of the three operations returns a result instead
\* of raising; a result whose success is false carries error and
\* error_code, except the aggregate of send_bulk_email after a failed
\* send, which carries total, succeeded, failed and results, each failed
\* entry of results carrying an error and an error_code that are not None.
C1_ResultNeverRaised ==
    Returned =>
        /\ ~HasRaised(result)
        /\ "success" \in DOMAIN result
        /\ (~result.success =>
              \/ {"error", "error_code"} \subseteq DOMAIN result
              \/ /\ op = "send_bulk_email"
                 /\ {"total", "succeeded", "failed", "results"}
                        \subseteq DOMAIN result
                 /\ result.failed > 0
                 /\ \A i \in 1..Len(result.results) :
                       ~result.results[i].success =>
                           /\ result.results[i].error.some
                           /\ result.results[i].error_code.some)

C1_Witness ==
    /\ Returned
    /\ op = "send_bulk_email"
    /\ "results" \in DOMAIN result
    /\ ~result.success
    /\ \E i \in 1..Len(result.results) : result.results[i].success

C2_Absent == {k \in {RequiredKeys[j] : j \in 1..4} : env[k] = None}

C2_AbsentOrEmpty ==
    {k \in {RequiredKeys[j] : j \in 1..4} : env[k] = None \/ env[k] = Str(<<>>)}

\* C2 as stated: when at least one of the four required settings is
\* absent, every send_email fails with MISSING_SMTP_CONFIG, missing_configs
\* is exactly the set of absent keys, and no connection is attempted.
C2_MissingExactlyTheAbsent ==
    Returned /\ C2_Absent # {} =>
        \A i \in 1..Len(sends) :
            LET r == sends[i].result
            IN  /\ ~r.success
                /\ r.error_code = "MISSING_SMTP_CONFIG"
                /\ "missing_configs" \in DOMAIN r
                /\ {r.missing_configs[j] : j \in 1..Len(r.missing_configs)}
                      = C2_Absent
                /\ sends[i].transport = <<>>

\* C2 amended: when at least one of the four required settings is absent
\* or set to the empty string, every send_email fails with
\* MISSING_SMTP_CONFIG, missing_configs lists exactly the keys that are
\* absent or empty, each once, and no connection is attempted.
C2_MissingExactlyTheAbsentOrEmpty ==
    Returned /\ C2_AbsentOrEmpty # {} =>
        \A i \in 1..Len(sends) :
            LET r == sends[i].result
            IN  /\ ~r.success
                /\ r.error_code = "MISSING_SMTP_CONFIG"
                /\ "missing_configs" \in DOMAIN r
                /\ {r.missing_configs[j] : j \in 1..Len(r.missing_configs)}
                      = C2_AbsentOrEmpty
                /\ Len(r.missing_configs) = Cardinality(C2_AbsentOrEmpty)
                /\ sends[i].transport = <<>>

C2_Witness ==
    /\ Returned
    /\ op = "send_email"
    /\ \A k \in ConfigKeys : env[k] = None
    /\ "missing_configs" \in DOMAIN result
    /\ Len(result.missing_configs) = 4

C3_PassesValidation ==
    /\ op = "send_bulk_email"
    /\ args.recipients.kind = "list"
    /\ Len(args.recipients.items) > 0
    /\ NonEmptyStr(args.subject)
    /\ NonEmptyStr(args.body)

\* C3: when send_bulk_email passes its own validation, send_email is
\* invoked exactly once per element of recipients, in input order, with
\* that element as to and no cc/bcc; a failed send does not keep the
\* sends after it from being made.
C3_OneSendPerRecipient ==
    Returned /\ C3_PassesValidation =>
        /\ Len(sends) = Len(args.recipients.items)
        /\ \A i \in 1..Len(sends) :
              /\ sends[i].args.to = args.recipients.items[i]
              /\ sends[i].args.cc = None
              /\ sends[i].args.bcc = None
              /\ sends[i].args.subject = args.subject
              /\ sends[i].args.body = args.body
              /\ sends[i].args.body_type = args.body_type

C3_Witness ==
    /\ Returned
    /\ C3_PassesValidation
    /\ Len(sends) = 2
    /\ ~sends[1].result.success
    /\ sends[2].result.success
    /\ sends[2].transport # <<>>

\* C4: every aggregate result of send_bulk_email has
\* total = len(recipients) = len(results), succeeded + failed = total,
\* success = (failed = 0), and results[i] names recipients[i] with the
\* outcome of the i-th send.
C4_AggregateConsistent ==
    Returned /\ op = "send_bulk_email" /\ "total" \in DOMAIN result =>
        /\ result.total = Len(args.recipients.items)
        /\ result.total = Len(result.results)
        /\ result.succeeded + result.failed = result.total
        /\ result.success = (result.failed = 0)
        /\ Len(sends) = result.total
        /\ \A i \in 1..Len(result.results) :
              /\ result.results[i].recipient = args.recipients.items[i]
              /\ result.results[i].success = sends[i].result.success

C4_Witness ==
    /\ Returned
    /\ op = "send_bulk_email"
    /\ "total" \in DOMAIN result
    /\ result.total = 2
    /\ result.succeeded = 1
    /\ result.failed = 1
    /\ result.results[1].success
    /\ ~result.results[2].success

\* C5: on a successful send_email the message is handed to the transport
\* for to-list, then cc-list, then bcc-list, duplicates kept, and the
\* result has recipients = to-list, cc = cc-list (None when empty) and
\* bcc_count = the length of the bcc-list.
C5_DeliveredToAll ==
    Returned =>
        \A i \in 1..Len(sends) :
            LET s == sends[i]
                tos == Addresses(s.args.to)
                ccs == Addresses(s.args.cc)
                bccs == Addresses(s.args.bcc)
            IN  s.result.success =>
                  /\ \E j \in 1..Len(s.transport) :
                        /\ s.transport[j].step = "send_message"
                        /\ s.transport[j].out = "ok"
                        /\ s.transport[j].to_addrs = tos \o ccs \o bccs
                  /\ Cardinality({j \in 1..Len(s.transport) :
                                    s.transport[j].step = "send_message"}) = 1
                  /\ s.result.recipients = tos
                  /\ s.result.cc.some = (Len(ccs) > 0)
                  /\ s.result.cc.list = ccs
                  /\ s.result.bcc_count = Len(bccs)

C5_Witness ==
    /\ Returned
    /\ op = "send_email"
    /\ result.success
    /\ \E j \in 1..Len(sends[1].transport) :
          sends[1].transport[j].to_addrs =
              <<<<"a">>, <<"b">>, <<>>, <<"c">>, <<"d">>, <<"e">>, <<"e">>>>
    /\ result.recipients = <<<<"a">>, <<"b">>, <<>>>>
    /\ result.cc.list = <<<<"c">>, <<"d">>>>
    /\ result.bcc_count = 2

C6_TrueInAnyCase ==
    {<<a, b, c, d>> : a \in {"t", "T"}, b \in {"r", "R"},
                      c \in {"u", "U"}, d \in {"e", "E"}}

C6_UpgradeOn ==
    \/ env["SMTP_USE_TLS"] = None
    \/ env["SMTP_USE_TLS"].v \in C6_TrueInAnyCase

\* C6: when SMTP_USE_TLS is unset or is "true" in any letter case, the
\* connection send_email opens is a plaintext one and, once it is open,
\* STARTTLS is the next call; for every other value the connection is an
\* implicit-TLS one and STARTTLS is never called.
C6_UpgradeIffTls ==
    Returned =>
        \A i \in 1..Len(sends) :
            LET tr == sends[i].transport
            IN  Len(tr) > 0 =>
                  /\ tr[1].step = "connect"
                  /\ C6_UpgradeOn =>
                        /\ tr[1].mode = "SMTP"
                        /\ tr[1].out = "ok" =>
                              Len(tr) >= 2 /\ tr[2].step = "starttls"
                  /\ ~C6_UpgradeOn =>
                        /\ tr[1].mode = "SMTP_SSL"
                        /\ \A j \in 1..Len(tr) : tr[j].step # "starttls"

C6_Witness ==
    /\ Returned
    /\ op = "send_email"
    /\ env["SMTP_USE_TLS"] = Str(<<"T", "R", "u", "e">>)
    /\ Len(sends[1].transport) >= 2
    /\ sends[1].transport[1].mode = "SMTP"
    /\ sends[1].transport[2].step = "starttls"

C7_LoginFailed(tr) ==
    /\ Len(tr) > 0
    /\ tr[Len(tr)].step = "login"
    /\ tr[Len(tr)].out # "ok"

\* C7 as stated: whenever the authenticate step fails, whatever the
\* transport signals, the result is a failure with SMTP_CONNECTION_ERROR.
C7_AuthFailureIsConnectionError ==
    Returned =>
        \A i \in 1..Len(sends) :
            C7_LoginFailed(sends[i].transport) =>
                /\ ~sends[i].result.success
                /\ sends[i].result.error_code = "SMTP_CONNECTION_ERROR"

\* C7 amended: whenever the authenticate step fails the result is a
\* failure whose error_code is SMTP_AUTH_ERROR when the transport signals
\* an authentication error, SMTP_ERROR when it signals another SMTP
\* protocol error, and SMTP_CONNECTION_ERROR for every other failure.
C7_AuthFailureByKind ==
    Returned =>
        \A i \in 1..Len(sends) :
            LET tr == sends[i].transport
            IN  C7_LoginFailed(tr) =>
                  /\ ~sends[i].result.success
                  /\ sends[i].result.error_code =
                        IF tr[Len(tr)].out = "auth" THEN "SMTP_AUTH_ERROR"
                        ELSE IF tr[Len(tr)].out = "smtp" THEN "SMTP_ERROR"
                        ELSE "SMTP_CONNECTION_ERROR"

C7_Witness ==
    /\ Returned
    /\ op = "send_email"
    /\ C7_LoginFailed(sends[1].transport)
    /\ sends[1].transport[Len(sends[1].transport)].out = "auth"
    /\ result.error_code = "SMTP_AUTH_ERROR"

\* C8: every transport session send_email opens is closed before
\* send_email returns, on every exit path.
C8_SessionClosedOnReturn ==
    Returned =>
        \A i \in 1..Len(sends) :
            LET tr == sends[i].transport
            IN  \A j \in 1..Len(tr) :
                  tr[j].step = "connect" /\ tr[j].out = "ok" =>
                      \E k \in (j + 1)..Len(tr) : tr[k].step = "quit"

C9_SettingsPresent == \A j \in 1..4 : NonEmptyStr(env[RequiredKeys[j]])

\* C9 as stated: every send_email whose body_type is not "plain" or
\* "html" fails with INVALID_BODY_TYPE, whatever the other fields are.
C9_InvalidBodyTypeAlways ==
    Returned =>
        \A i \in 1..Len(sends) :
            sends[i].args.body_type \notin {"plain", "html"} =>
                /\ ~sends[i].result.success
                /\ sends[i].result.error_code = "INVALID_BODY_TYPE"

\* C9 amended: every send_email with the four required settings present
\* and to, subject and body non-empty strings, whose body_type is not
\* "plain" or "html", fails with INVALID_BODY_TYPE, whatever cc and bcc
\* are, before any file is read or connection opened.
C9_InvalidBodyTypeAfterEarlierChecks ==
    Returned /\ C9_SettingsPresent =>
        \A i \in 1..Len(sends) :
            LET a == sends[i].args
            IN  /\ NonEmptyStr(a.to) /\ NonEmptyStr(a.subject)
                /\ NonEmptyStr(a.body)
                /\ a.body_type \notin {"plain", "html"}
                =>
                /\ ~sends[i].result.success
                /\ sends[i].result.error_code = "INVALID_BODY_TYPE"
                /\ sends[i].reads = <<>>
                /\ sends[i].transport = <<>>

C9_Witness ==
    /\ Returned
    /\ op = "send_email"
    /\ args.body_type = "markdown"
    /\ args.bcc = Obj
    /\ result.error_code = "INVALID_BODY_TYPE"

\* a numeric string: optional white space, an optional sign, digits with
\* single underscores between them, optional white space
C10_Numeric(s) ==
    \E lo, hi \in 1..Len(s) :
        /\ lo <= hi
        /\ \A i \in 1..(lo - 1) : IsSpace(s[i])
        /\ \A i \in (hi + 1)..Len(s) : IsSpace(s[i])
        /\ LET first == IF s[lo] \in {"+", "-"} THEN lo + 1 ELSE lo
           IN  /\ first <= hi
               /\ s[first] \in Digits
               /\ s[hi] \in Digits
               /\ \A i \in first..hi :
                     \/ s[i] \in Digits
                     \/ s[i] = "_" /\ s[i - 1] \in Digits /\ s[i + 1] \in Digits

C10_ValidArgs(a) ==
    /\ NonEmptyStr(a.to) /\ NonEmptyStr(a.subject)
    /\ NonEmptyStr(a.body) /\ Encodable(a.body.v)
    /\ a.body_type \in {"plain", "html"}
    /\ a.cc.t \in {"none", "str"} /\ a.bcc.t \in {"none", "str"}

\* C10 as stated: every send_email with the four required settings
\* present, valid arguments and a SMTP_PORT that is no numeric string
\* fails with INVALID_PORT, and no transport call occurs.
C10_InvalidPortAlways ==
    Returned /\ C9_SettingsPresent /\ ~C10_Numeric(env["SMTP_PORT"].v) =>
        \A i \in 1..Len(sends) :
            C10_ValidArgs(sends[i].args) =>
                /\ ~sends[i].result.success
                /\ sends[i].result.error_code = "INVALID_PORT"
                /\ sends[i].transport = <<>>

\* C10 amended: every send_email with the four required settings present,
\* valid arguments, no failing read of an attachment file and a SMTP_PORT
\* that is no numeric string fails with INVALID_PORT, and no transport
\* call occurs.
C10_InvalidPortUnlessAttachmentFails ==
    Returned /\ C9_SettingsPresent /\ ~C10_Numeric(env["SMTP_PORT"].v) =>
        \A i \in 1..Len(sends) :
            /\ C10_ValidArgs(sends[i].args)
            /\ \A j \in 1..Len(sends[i].reads) : sends[i].reads[j].ok
            =>
            /\ ~sends[i].result.success
            /\ sends[i].result.error_code = "INVALID_PORT"
            /\ sends[i].transport = <<>>

C10_Witness ==
    /\ Returned
    /\ op = "send_email"
    /\ env["SMTP_PORT"] = Str(<<"2", "a">>)
    /\ result.error_code = "INVALID_PORT"
    /\ Len(sends[1].reads) > 0
    /\ sends[1].transport = <<>>

C11_PreflightCodes ==
    {"MISSING_SMTP_CONFIG", "INVALID_PORT", "INVALID_RECIPIENT",
     "INVALID_SUBJECT", "INVALID_BODY", "INVALID_BODY_TYPE"}

C11_EndsWith(s, codes) ==
    /\ "error_code" \in DOMAIN s.result
    /\ s.result.error_code \in codes

\* C11 as stated: a send_email that ends with a pre-flight config or
\* input-validation error has read no attachment file and opened no
\* connection before returning.
C11_NoIOBeforeValidationError ==
    Returned =>
        \A i \in 1..Len(sends) :
            C11_EndsWith(sends[i], C11_PreflightCodes) =>
                /\ sends[i].reads = <<>>
                /\ sends[i].transport = <<>>

\* C11 amended: a send_email that ends with a pre-flight config or
\* input-validation error has opened no connection; it has read no
\* attachment file either, unless the error is INVALID_PORT, which is
\* returned after every regular file of the attachments directory was
\* read without a failure.
C11_NoConnectionBeforeValidationError ==
    Returned =>
        \A i \in 1..Len(sends) :
            C11_EndsWith(sends[i], C11_PreflightCodes) =>
                /\ sends[i].transport = <<>>
                /\ sends[i].result.error_code # "INVALID_PORT" =>
                      sends[i].reads = <<>>
                /\ \A j \in 1..Len(sends[i].reads) : sends[i].reads[j].ok

C11_Witness ==
    /\ Returned
    /\ op = "send_email"
    /\ result.error_code = "INVALID_PORT"
    /\ sends[1].reads = <<[name |-> "f1", ok |-> TRUE]>>
    /\ sends[1].transport = <<>>

\* C12: when the read of a file of the attachments directory fails during
\* send_email, the loop ends there, the call returns success=false with
\* ATTACHMENT_ERROR and an error text that names that file, no connection
\* is opened and no message is delivered.
C12_AttachmentFailureAborts ==
    Returned =>
        \A i \in 1..Len(sends) :
            \A j \in 1..Len(sends[i].reads) :
                ~sends[i].reads[j].ok =>
                    /\ j = Len(sends[i].reads)
                    /\ ~sends[i].result.success
                    /\ sends[i].result.error_code = "ATTACHMENT_ERROR"
                    /\ \E n \in 1..Len(sends[i].result.error) :
                          sends[i].result.error[n] = sends[i].reads[j].name
                    /\ sends[i].transport = <<>>

C12_Witness ==
    /\ Returned
    /\ op = "send_email"
    /\ sends[1].reads = <<[name |-> "f1", ok |-> TRUE],
                          [name |-> "f2", ok |-> FALSE]>>
    /\ result.error_code = "ATTACHMENT_ERROR"
    /\ sends[1].transport = <<>>

C13_RecipientsInvalid ==
    args.recipients.kind # "list" \/ Len(args.recipients.items) = 0

\* C13: send_bulk_email with recipients that are empty or no list, an
\* empty subject or an empty body returns success=false with
\* INVALID_RECIPIENTS, INVALID_SUBJECT or INVALID_BODY, the code of the
\* first of these checks that fails, and send_email is invoked for no
\* recipient.
C13_BulkValidationSendsNothing ==
    Returned /\ op = "send_bulk_email" /\ ~C3_PassesValidation =>
        /\ ~result.success
        /\ "error_code" \in DOMAIN result
        /\ result.error_code =
              IF C13_RecipientsInvalid THEN "INVALID_RECIPIENTS"
              ELSE IF ~NonEmptyStr(args.subject) THEN "INVALID_SUBJECT"
              ELSE "INVALID_BODY"
        /\ sends = <<>>

C13_Witness ==
    /\ Returned
    /\ op = "send_bulk_email"
    /\ Len(args.recipients.items) = 2
    /\ NonEmptyStr(args.subject)
    /\ ~NonEmptyStr(args.body)
    /\ result.error_code = "INVALID_BODY"
    /\ sends = <<>>

C14_ValidToAndSubject ==
    /\ op = "send_email_with_template"
    /\ NonEmptyStr(args.to)
    /\ NonEmptyStr(args.subject)

C14_DataInvalid ==
    args.template_data.t # "dict" \/ Len(args.template_data.v) = 0

\* C14: send_email_with_template with valid to and subject returns
\* INVALID_TEMPLATE_TYPE when template_type is none of notification,
\* welcome, alert, report, and INVALID_TEMPLATE_DATA when template_type is
\* one of them and template_data is empty or no dict; in both cases
\* nothing is rendered and send_email is not invoked.
C14_TemplateValidation ==
    Returned /\ C14_ValidToAndSubject =>
        /\ args.template_type
              \notin {"notification", "welcome", "alert", "report"} =>
              /\ ~result.success
              /\ result.error_code = "INVALID_TEMPLATE_TYPE"
              /\ rendered = <<>>
              /\ sends = <<>>
        /\ /\ args.template_type
                \in {"notification", "welcome", "alert", "report"}
           /\ C14_DataInvalid
           =>
              /\ ~result.success
              /\ result.error_code = "INVALID_TEMPLATE_DATA"
              /\ rendered = <<>>
              /\ sends = <<>>

C14_Witness ==
    /\ Returned
    /\ C14_ValidToAndSubject
    /\ args.template_type = "alert"
    /\ args.template_data.t = "list"
    /\ result.error_code = "INVALID_TEMPLATE_DATA"
    /\ sends = <<>>

C15_ValidationCodes ==
    {"INVALID_RECIPIENT", "INVALID_SUBJECT", "INVALID_TEMPLATE_TYPE",
     "INVALID_TEMPLATE_DATA"}

\* template_type is in the result exactly when the send succeeded, and
\* the one send_email call gets the rendered body as html with the
\* caller's to, subject, cc and bcc
C15_PassThrough ==
    /\ ("template_type" \in DOMAIN result) <=> result.success
    /\ Len(sends) <= 1
    /\ result.success =>
          /\ Len(sends) = 1
          /\ result = [template_type |-> args.template_type] @@ sends[1].result
          /\ result.template_type = args.template_type
    /\ \A i \in 1..Len(sends) :
          /\ Len(rendered) = 1
          /\ sends[i].args = [to |-> args.to, subject |-> args.subject,
                              body |-> Str(rendered[1]), cc |-> args.cc,
                              bcc |-> args.bcc, body_type |-> "html"]

\* C15 as stated: the result has template_type, equal to the requested
\* kind, iff success is true; otherwise the result is exactly the failure
\* result of validation or of the underlying send_email, which gets the
\* html body kind and the caller's cc and bcc unchanged.
C15_TemplateTypeIffSuccess ==
    Returned /\ op = "send_email_with_template" =>
        /\ C15_PassThrough
        /\ ~result.success =>
              \/ Len(sends) = 1 /\ result = sends[1].result
              \/ /\ sends = <<>>
                 /\ result.error_code \in C15_ValidationCodes

\* C15 amended: as stated, but a failed result may also be the
\* UNEXPECTED_ERROR result of an exception raised while the fragments are
\* rendered, after validation passed and before send_email is invoked.
C15_TemplateTypeIffSuccessOrRenderFailure ==
    Returned /\ op = "send_email_with_template" =>
        /\ C15_PassThrough
        /\ ~result.success =>
              \/ Len(sends) = 1 /\ result = sends[1].result
              \/ /\ sends = <<>>
                 /\ result.error_code \in C15_ValidationCodes
              \/ /\ sends = <<>>
                 /\ rendered = <<>>
                 /\ result.error_code = "UNEXPECTED_ERROR"
                 /\ C14_ValidToAndSubject
                 /\ ~C14_DataInvalid
                 /\ args.template_type \in DOMAIN EMAIL_TEMPLATES

C15_Witness ==
    /\ Returned
    /\ op = "send_email_with_template"
    /\ result.success
    /\ result.template_type = "report"
    /\ args.cc = Str(<<"c">>)
    /\ sends[1].args.bcc = Str(<<"e">>)
    /\ sends[1].args.body_type = "html"

C16_Count(html, marker) ==
    Cardinality({i \in 1..Len(html) : html[i] = marker})

\* what stands k places after each occurrence of marker, in order
C16_After(html, marker, k) ==
    LET pos == SelectSeq([i \in 1..Len(html) |-> i],
                         LAMBDA i : html[i] = marker)
    IN  [n \in 1..Len(pos) |-> html[pos[n] + k]]

C16_Has(d, k) == k \in DOMAIN d

C16_Filled(d, k) == k \in DOMAIN d /\ Truthy(d[k])

\* the fragments of the rendered body, for a reading Present of "the
\* field is present": the button, and within its own layout the
\* features (welcome), details (alert) and stats (report) block with one
\* item per element, in input order
C16_Fragments(Present(_, _)) ==
    LET d == args.template_data.d
        tt == args.template_type
        html == rendered[1]
        features == tt = "welcome" /\ Present(d, "features")
        details == tt = "alert" /\ Present(d, "details")
        stats == tt = "report" /\ Present(d, "stats")
    IN  /\ C16_Count(html, "<a href=") =
              IF Present(d, "button_text") /\ Present(d, "button_url")
                THEN 1 ELSE 0
        /\ C16_Count(html, "<div class=features>") = IF features THEN 1 ELSE 0
        /\ C16_After(html, "<div class=feature-item>", 1) =
              IF features THEN d.features.v ELSE <<>>
        /\ C16_Count(html, "<div class=details>") = IF details THEN 1 ELSE 0
        /\ C16_After(html, "<div><strong>", 1) =
              IF details
                THEN [i \in 1..Len(d.details.v) |-> d.details.v[i][1]]
                ELSE <<>>
        /\ C16_After(html, "<div><strong>", 3) =
              IF details
                THEN [i \in 1..Len(d.details.v) |-> d.details.v[i][2]]
                ELSE <<>>
        /\ C16_Count(html, "<div class=stats>") = IF stats THEN 1 ELSE 0
        /\ C16_After(html, "<div class=stat-card>", 1) =
              IF stats
                THEN [i \in 1..Len(d.stats.v) |->
                        IF "value" \in DOMAIN d.stats.v[i]
                          THEN d.stats.v[i].value ELSE "N/A"]
                ELSE <<>>
        /\ C16_After(html, "<div class=stat-card>", 2) =
              IF stats
                THEN [i \in 1..Len(d.stats.v) |->
                        IF "label" \in DOMAIN d.stats.v[i]
                          THEN d.stats.v[i].label ELSE ""]
                ELSE <<>>

\* C16 as stated: in the rendered HTML the button fragment is non-empty
\* iff button_text and button_url are both present, and the features,
\* details and stats fragments are non-empty iff the field is present,
\* with one rendered item per element in input order; an absent field
\* renders as the empty fragment.
C16_FragmentIffPresent ==
    Returned /\ op = "send_email_with_template" /\ Len(rendered) = 1 =>
        C16_Fragments(C16_Has)

\* C16 amended: as stated, with "present" read as "present with a value
\* that is not empty": a field given as the empty string or the empty
\* list renders as the empty fragment, like an absent one.
C16_FragmentIffFilled ==
    Returned /\ op = "send_email_with_template" /\ Len(rendered) = 1 =>
        C16_Fragments(C16_Filled)

C16_Witness ==
    /\ Returned
    /\ op = "send_email_with_template"
    /\ args.template_type = "welcome"
    /\ Len(rendered) = 1
    /\ C16_After(rendered[1], "<div class=feature-item>", 1) = <<"f1", "f2">>
    /\ C16_Count(rendered[1], "<a href=") = 0

C17_Failed(tr) == Len(tr) > 0 /\ tr[Len(tr)].out # "ok"

\* C17 as stated: when send_email reached the transport stage, a failure
\* of connect, upgrade or deliver is reported with SMTP_ERROR (and any
\* other unexpected failure with UNEXPECTED_ERROR).
C17_TransportFailureIsSmtpError ==
    Returned =>
        \A i \in 1..Len(sends) :
            LET tr == sends[i].transport
            IN  C17_Failed(tr) =>
                  /\ ~sends[i].result.success
                  /\ tr[Len(tr)].step \in {"connect", "starttls", "send_message"}
                        => sends[i].result.error_code = "SMTP_ERROR"
                  /\ tr[Len(tr)].step \notin {"connect", "starttls", "send_message"}
                        => sends[i].result.error_code
                              \in {"SMTP_ERROR", "SMTP_CONNECTION_ERROR",
                                   "UNEXPECTED_ERROR"}

\* C17 amended: when send_email reached the transport stage, a failure of
\* any transport call (connect, upgrade, authenticate, deliver, close) is
\* reported by the kind of the exception: SMTP_AUTH_ERROR for an
\* authentication error, SMTP_ERROR for another SMTP protocol error,
\* SMTP_CONNECTION_ERROR for every other exception; UNEXPECTED_ERROR is
\* never returned once the transport stage is reached.
C17_TransportFailureByKind ==
    Returned =>
        \A i \in 1..Len(sends) :
            LET tr == sends[i].transport
            IN  Len(tr) > 0 =>
                  /\ sends[i].result.success = ~C17_Failed(tr)
                  /\ C17_Failed(tr) =>
                        sends[i].result.error_code =
                            IF tr[Len(tr)].out = "auth" THEN "SMTP_AUTH_ERROR"
                            ELSE IF tr[Len(tr)].out = "smtp" THEN "SMTP_ERROR"
                            ELSE "SMTP_CONNECTION_ERROR"

C17_Witness ==
    /\ Returned
    /\ op = "send_email"
    /\ Len(sends[1].transport) = 1
    /\ sends[1].transport[1].step = "connect"
    /\ sends[1].transport[1].out = "other"
    /\ result.error_code = "SMTP_CONNECTION_ERROR"

\* the positions of the commas of s, in order, between 0 and Len(s) + 1
C18_Cuts(s) ==
    <<0>> \o SelectSeq([i \in 1..Len(s) |-> i], LAMBDA i : s[i] = ",")
         \o <<Len(s) + 1>>

\* e is seg without the white space at its two ends
C18_Trimmed(seg, e) ==
    \E lo \in 1..(Len(seg) + 1) :
        /\ e = SubSeq(seg, lo, lo + Len(e) - 1)
        /\ \A i \in 1..(lo - 1) : IsSpace(seg[i])
        /\ \A i \in (lo + Len(e))..Len(seg) : IsSpace(seg[i])
        /\ Len(e) > 0 => ~IsSpace(e[1]) /\ ~IsSpace(e[Len(e)])

\* C18: the address list of an argument is the argument split on ',' with
\* each segment trimmed and empty segments kept: a non-empty argument with
\* k commas yields exactly k+1 entries, the i-th being the trimmed text
\* between the (i-1)-th and the i-th comma; an absent or empty argument
\* yields the empty list.
C18_SplitKeepsEmptySegments ==
    pc = "returned" /\ op = "addresses" =>
        LET x == args.x
            l == result.list
            cuts == C18_Cuts(x.v)
        IN  IF x = None \/ Len(x.v) = 0
              THEN l = <<>>
              ELSE /\ Len(l) = Len(cuts) - 1
                   /\ Len(l) = 1 + Cardinality({i \in 1..Len(x.v) : x.v[i] = ","})
                   /\ \A i \in 1..Len(l) :
                         C18_Trimmed(SubSeq(x.v, cuts[i] + 1, cuts[i + 1] - 1),
                                     l[i])

C18_Witness ==
    /\ pc = "returned"
    /\ op = "addresses"
    /\ args.x = Str(<<"a", ",">>)
    /\ result.list = <<<<"a">>, <<>>>>

C19_Order ==
    IF C6_UpgradeOn
      THEN <<"connect", "starttls", "login", "send_message", "quit">>
      ELSE <<"connect", "login", "send_message", "quit">>

\* C19: within one send_email the trace of transport steps is a prefix of
\* connect, (upgrade when secure-upgrade is on), authenticate, deliver,
\* close, so each step occurs at most once; no step follows a failed one;
\* and success=true is returned only after all of them completed.
C19_StepsInOrderOnce ==
    Returned =>
        \A i \in 1..Len(sends) :
            LET tr == sends[i].transport
            IN  /\ Len(tr) <= Len(C19_Order)
                /\ \A j \in 1..Len(tr) : tr[j].step = C19_Order[j]
                /\ \A j \in 1..(Len(tr) - 1) : tr[j].out = "ok"
                /\ sends[i].result.success =>
                      /\ Len(tr) = Len(C19_Order)
                      /\ \A j \in 1..Len(tr) : tr[j].out = "ok"

C19_Witness ==
    /\ Returned
    /\ op = "send_email"
    /\ env["SMTP_USE_TLS"] = Str(<<"f", "a", "l", "s", "e">>)
    /\ result.success
    /\ [j \in 1..Len(sends[1].transport) |-> sends[1].transport[j].step]
          = <<"connect", "login", "send_message", "quit">>

\* the message of a send can be built: cc and bcc are strings or absent
\* and the body can be encoded as UTF-8
C20_Builds(a) ==
    /\ a.cc.t \in {"none", "str"}
    /\ a.bcc.t \in {"none", "str"}
    /\ Encodable(a.body.v)

\* the first check of send s that fails, in the order of the claim, with
\* the code given for a message that cannot be built; "none" when no
\* check fails
C20_First(s, unbuilt) ==
    IF C2_AbsentOrEmpty # {} THEN "MISSING_SMTP_CONFIG"
    ELSE IF ~NonEmptyStr(s.args.to) THEN "INVALID_RECIPIENT"
    ELSE IF ~NonEmptyStr(s.args.subject) THEN "INVALID_SUBJECT"
    ELSE IF ~NonEmptyStr(s.args.body) THEN "INVALID_BODY"
    ELSE IF s.args.body_type \notin {"plain", "html"} THEN "INVALID_BODY_TYPE"
    ELSE IF ~C20_Builds(s.args) /\ unbuilt # "none" THEN unbuilt
    ELSE IF \E j \in 1..Len(s.reads) : ~s.reads[j].ok THEN "ATTACHMENT_ERROR"
    ELSE IF ~C10_Numeric(env["SMTP_PORT"].v) THEN "INVALID_PORT"
    ELSE "none"

\* the first check of the templated call that fails; "none" when none does
C20_TemplateFirst ==
    IF ~NonEmptyStr(args.to) THEN "INVALID_RECIPIENT"
    ELSE IF ~NonEmptyStr(args.subject) THEN "INVALID_SUBJECT"
    ELSE IF args.template_type
              \notin {"notification", "welcome", "alert", "report"}
      THEN "INVALID_TEMPLATE_TYPE"
    ELSE IF C14_DataInvalid THEN "INVALID_TEMPLATE_DATA"
    ELSE "none"

C20_Order(unbuilt) ==
    /\ \A i \in 1..Len(sends) :
          C20_First(sends[i], unbuilt) # "none" =>
              /\ ~sends[i].result.success
              /\ sends[i].result.error_code = C20_First(sends[i], unbuilt)
    /\ op = "send_email_with_template" /\ C20_TemplateFirst # "none" =>
          /\ ~result.success
          /\ result.error_code = C20_TemplateFirst
          /\ sends = <<>>

\* C20 as stated: send_email reports the first failing check in the order
\* MISSING_SMTP_CONFIG, INVALID_RECIPIENT, INVALID_SUBJECT, INVALID_BODY,
\* INVALID_BODY_TYPE, ATTACHMENT_ERROR, INVALID_PORT, and
\* send_email_with_template reports INVALID_RECIPIENT, INVALID_SUBJECT,
\* INVALID_TEMPLATE_TYPE, INVALID_TEMPLATE_DATA, in that order, before any
\* SMTP configuration check.
C20_FirstFailingCheck == Returned => C20_Order("none")

\* C20 amended: as stated, with one more step in the order of send_email:
\* after INVALID_BODY_TYPE and before ATTACHMENT_ERROR and INVALID_PORT, a
\* message that cannot be built (a body that cannot be encoded, a cc or
\* bcc that is no string) is reported as UNEXPECTED_ERROR.
C20_FirstFailingCheckOrUnbuilt == Returned => C20_Order("UNEXPECTED_ERROR")

C20_Witness ==
    /\ Returned
    /\ op = "send_email"
    /\ C9_SettingsPresent
    /\ env["SMTP_PORT"] = Str(<<"2", "a">>)
    /\ ~NonEmptyStr(args.subject)
    /\ ~NonEmptyStr(args.body)
    /\ args.body_type = "markdown"
    /\ result.error_code = "INVALID_SUBJECT"

C21_Delivered(tr) ==
    \E j \in 1..Len(tr) : tr[j].step = "send_message" /\ tr[j].out = "ok"

\* C21: whenever send_email returns success=false the deliver step did
\* not complete for that call, so the failed count of send_bulk_email
\* never includes a recipient whose message was handed over to the
\* transport successfully.
C21_FailedMeansNotDelivered ==
    Returned =>
        /\ \A i \in 1..Len(sends) :
              ~sends[i].result.success => ~C21_Delivered(sends[i].transport)
        /\ op = "send_bulk_email" /\ "results" \in DOMAIN result =>
              \A i \in 1..Len(result.results) :
                  ~result.results[i].success =>
                      ~C21_Delivered(sends[i].transport)

\* the names the renderer supplies whatever template_data holds
C22_Supplied == DOMAIN TemplateVars(<<>>, <<>>, <<>>, <<>>, <<>>)

\* template_data is a non-empty mapping whose features, details and stats,
\* when present, are a list, a mapping and a list of mappings
C22_Documented ==
    LET d == args.template_data.d
    IN  /\ ~C14_DataInvalid
        /\ "features" \in DOMAIN d => d.features.t = "list"
        /\ "details" \in DOMAIN d => d.details.t = "dict"
        /\ "stats" \in DOMAIN d => d.stats.t = "dictlist"

====
